---- MODULE Spec2Model ----
(***************************************************************************)
(* The chunked fit/predict wrappers of eddymotion/model.py (DTIModel and   *)
(* DKIModel) as a state machine.                                           *)
(*                                                                         *)
(* A volume is the sequence of its voxels in C order (the order in which   *)
(* boolean-mask indexing visits them); the measurement axis of a voxel is  *)
(* one opaque value.  An optional value is <<>> (None) or <<x>>.           *)
(* Baseline intensities are fixed-point numbers in units of 1e-5.          *)
(* The wrapped library is opaque: a fit keeps, per voxel, parameters that  *)
(* depend on that voxel's data alone, a prediction depends on a voxel's    *)
(* parameters, the gradient table, the voxel's baseline and the step, and  *)
(* any library call may raise, whatever object it is made on (the wrappers *)
(* are duck-typed and never look at what a sub-model is).  Gradients carry *)
(* a single direction, the spatial axes of a volume are longer than one.   *)
(* S0full, maskArg, fitData, preModel, seen, reordered and last.sts record *)
(* history for the properties; the program does not read them.             *)
(***************************************************************************)
EXTENDS Integers, Sequences, FiniteSets, TLC

MaxVox == 3
MaxThreads == 2
MaxCalls == 3

S0One == 100000
S0Min == 1

DataBases == {0, 10}

NoneV == <<>>
Some(x) == <<x>>
IsNone(o) == Len(o) = 0
Val(o) == o[1]

Min2(a, b) == IF a < b THEN a ELSE b
Max2(a, b) == IF a > b THEN a ELSE b

RECURSIVE SeqMax(_)
SeqMax(s) == IF Len(s) = 1 THEN s[1] ELSE Max2(s[1], SeqMax(Tail(s)))

RECURSIVE Insert(_, _)
Insert(x, s) ==
    IF s = <<>> THEN <<x>>
    ELSE IF x <= s[1] THEN <<x>> \o s
    ELSE <<s[1]>> \o Insert(x, Tail(s))

RECURSIVE Sorted(_)
Sorted(s) == IF s = <<>> THEN <<>> ELSE Insert(s[1], Sorted(Tail(s)))

(* np.clip(S0 / S0.max(), a_min=1e-5, a_max=1.0), in units of 1e-5 *)
Clip(x, lo, hi) == Max2(lo, Min2(x, hi))
NormalizeS0(S0) == [i \in 1..Len(S0) |-> Clip((S0[i] * S0One) \div SeqMax(S0), S0Min, S0One)]

(* s > np.percentile(s, 35), linear interpolation, both sides times 100 *)
PercentileMask(s) ==
    LET n == Len(s)
        srt == Sorted(s)
        pos == 35 * (n - 1)
        lo == (pos \div 100) + 1
        hi == Min2(lo + 1, n)
        pct100 == 100 * srt[lo] + (pos % 100) * (srt[hi] - srt[lo])
    IN [i \in 1..n |-> 100 * s[i] > pct100]

RECURSIVE MaskedIdx(_, _)
MaskedIdx(mask, from) ==
    IF from > Len(mask) THEN <<>>
    ELSE (IF mask[from] THEN <<from>> ELSE <<>>) \o MaskedIdx(mask, from + 1)

(* arr[mask]: the selected voxels, in mask order *)
Select(arr, mask) ==
    LET idx == MaskedIdx(mask, 1) IN [k \in 1..Len(idx) |-> arr[idx[k]]]

CountTrue(mask) == Len(MaskedIdx(mask, 1))

(* data[self._mask, ...]; a None index adds a leading axis and keeps every voxel *)
ApplyMask(data, mask) == IF IsNone(mask) THEN data ELSE Select(data, Val(mask))

(* the mask is left unresolved *)
ResolveMaskKeep(mask, data) == mask

(* np.ones(data.shape[:3], dtype=bool) when no mask is available *)
ResolveMask(mask, data) ==
    IF IsNone(mask) THEN Some([i \in 1..Len(data) |-> TRUE]) ELSE mask

(* the remainder goes to the last sections *)
SplitSizesTail(M, N) == [i \in 1..N |-> (M \div N) + (IF i > N - (M % N) THEN 1 ELSE 0)]

(* np.array_split: section sizes *)
SplitSizes(M, N) == [i \in 1..N |-> (M \div N) + (IF i <= M % N THEN 1 ELSE 0)]

RECURSIVE SumTo(_, _)
SumTo(s, k) == IF k = 0 THEN 0 ELSE s[k] + SumTo(s, k - 1)

ArraySplit(arr, N) ==
    LET sz == SplitSizes(Len(arr), N)
    IN [i \in 1..N |-> SubSeq(arr, SumTo(sz, i - 1) + 1, SumTo(sz, i))]

(* the chunks joined last to first *)
RECURSIVE ConcatRev(_)
ConcatRev(ss) == IF ss = <<>> THEN <<>> ELSE ConcatRev(Tail(ss)) \o ss[1]

(* np.concatenate(predicted, axis=0) *)
RECURSIVE Concat(_)
Concat(ss) == IF ss = <<>> THEN <<>> ELSE ss[1] \o Concat(Tail(ss))

(* _rasb2dipy: a 1-D gradient must have 4 elements; the table has one direction *)
RasbOk(g) == ~(Len(g.shape) = 1 /\ g.shape[1] # 4)
Rasb2dipy(g) == g.b

(* the wrapped library *)
FitVoxel(d) == <<"tensor", d>>
Untrained == <<"untrained">>
PredVoxel(p, tab, s0, step) == <<"signal", p, tab, s0, step>>
Zero == <<"zero">>

Exception == [id |-> <<0, 1>>, fitted |-> FALSE, spatial |-> FALSE, params |-> <<>>]
Template == [id |-> <<0, 0>>, fitted |-> FALSE, spatial |-> FALSE, params |-> <<>>]
LibFit(rows, id, spatial) ==
    [id |-> id, fitted |-> TRUE, spatial |-> spatial,
     params |-> [k \in 1..Len(rows) |-> FitVoxel(rows[k])]]

(* a per-voxel baseline must match the rows it scales *)
LibPredictOk(m, S0) ==
    IF m.fitted /\ ~IsNone(S0) THEN Len(Val(S0)) = Len(m.params) ELSE TRUE
LibPredict(m, tab, S0, step) ==
    IF m.fitted
    THEN [k \in 1..Len(m.params) |->
            PredVoxel(m.params[k], tab, IF IsNone(S0) THEN NoneV ELSE Some(Val(S0)[k]), step)]
    ELSE IF IsNone(S0) THEN <<>>
    ELSE [k \in 1..Len(Val(S0)) |-> PredVoxel(Untrained, tab, Some(Val(S0)[k]), step)]


(* np.squeeze of the concatenated rows: one row of one direction is 0-d,   *)
(* a volume that kept its three spatial axes is 3-d                        *)
Squeeze(rows, spatial) ==
    [ndim |-> IF spatial THEN 3 ELSE IF Len(rows) = 1 THEN 0 ELSE 1, vals |-> rows]

(* retval = np.zeros_like(mask); retval[mask] = predicted *)
ScatterOk(mask, p) ==
    IF IsNone(mask) THEN p.ndim = 0
    ELSE p.ndim = 0 \/ (p.ndim = 1 /\ Len(p.vals) = CountTrue(Val(mask)))

(* the rows written to the masked voxels last to first *)
ScatterRev(mask, p) ==
    IF IsNone(mask) THEN [shape |-> "scalar", vals |-> <<p.vals[1]>>]
    ELSE LET m == Val(mask)
         IN [shape |-> "volume",
             vals |-> [v \in 1..Len(m) |->
                        IF ~m[v] THEN Zero
                        ELSE IF p.ndim = 0 THEN p.vals[1]
                        ELSE p.vals[CountTrue(SubSeq(m, v, Len(m)))]]]

Scatter(mask, p) ==
    IF IsNone(mask) THEN [shape |-> "scalar", vals |-> <<p.vals[1]>>]
    ELSE LET m == Val(mask)
         IN [shape |-> "volume",
             vals |-> [v \in 1..Len(m) |->
                        IF ~m[v] THEN Zero
                        ELSE IF p.ndim = 0 THEN p.vals[1]
                        ELSE p.vals[CountTrue(SubSeq(m, 1, v))]]]

(* inputs *)
Volumes(n) == {[i \in 1..n |-> b + i] : b \in DataBases}
DataInputs == Volumes(MaxVox) \cup {[i \in 1..(MaxVox - 1) |-> i]}
MaskInputs == {NoneV} \cup {Some(m) : m \in [1..MaxVox -> BOOLEAN]}
PeakAt(k) == [i \in 1..MaxVox |-> IF i = k THEN 2 ELSE IF i < k THEN 1 ELSE 0]
S0Inputs == {NoneV} \cup {Some(PeakAt(k)) : k \in 1..MaxVox}
Gradients ==
    {[shape |-> <<4>>, b |-> "b1"], [shape |-> <<1, 4>>, b |-> "b2"],
     [shape |-> <<3>>, b |-> "b1"]}
PredictInputs ==
    {<<[shape |-> <<4>>, b |-> "b1"], NoneV>>, <<[shape |-> <<1, 4>>, b |-> "b2"], Some(1)>>,
     <<[shape |-> <<3>>, b |-> "b1"], NoneV>>}

VARIABLES kind, _model, _mask, _S0, pc, call, tasks, completed, pools, ncalls,
          last, S0full, maskArg, fitData, preModel, seen, reordered

vars == <<kind, _model, _mask, _S0, pc, call, tasks, completed, pools, ncalls,
          last, S0full, maskArg, fitData, preModel, seen, reordered>>

NoCall == [op |-> "none", data |-> <<>>, grad |-> <<>>, step |-> NoneV]
NoLast == [outcome |-> "none", out |-> NoneV, sts |-> <<>>]

(* DTIModel.__init__ *)
DTIInit(n_threads, S0, mask) ==
    LET s0n == IF IsNone(S0) THEN NoneV ELSE Some(NormalizeS0(Val(S0)))
        msk == IF ~IsNone(mask) THEN mask
               ELSE IF ~IsNone(s0n) THEN Some(PercentileMask(Val(s0n)))
               ELSE NoneV
    IN /\ kind = "DTI"
       /\ S0full = s0n
       /\ maskArg = mask
       /\ _mask = msk
       /\ _S0 = IF IsNone(s0n) THEN NoneV ELSE Some(Select(Val(s0n), Val(msk)))
       /\ _model = [i \in 1..n_threads |-> Template]

(* DKIModel.__init__; a mask without a baseline map fails to construct *)
DKIInit(S0, mask) ==
    LET s0n == IF IsNone(S0) THEN NoneV ELSE Some(NormalizeS0(Val(S0)))
        msk == IF ~IsNone(mask) THEN mask
               ELSE IF ~IsNone(s0n) THEN Some(PercentileMask(Val(s0n)))
               ELSE NoneV
    IN /\ ~(IsNone(S0) /\ ~IsNone(mask))
       /\ kind = "DKI"
       /\ S0full = s0n
       /\ maskArg = mask
       /\ _mask = msk
       /\ _S0 = IF IsNone(msk) THEN s0n ELSE Some(Select(Val(s0n), Val(msk)))
       /\ _model = <<Template>>

Init ==
    /\ \E S0 \in S0Inputs, mask \in MaskInputs :
         \/ \E n \in 1..MaxThreads : DTIInit(n, S0, mask)
         \/ DKIInit(S0, mask)
    /\ pc = "idle"
    /\ call = NoCall
    /\ tasks = <<>>
    /\ completed = <<>>
    /\ pools = {}
    /\ ncalls = 0
    /\ last = NoLast
    /\ fitData = NoneV
    /\ preModel = _model
    /\ seen = {}
    /\ reordered = FALSE

Fitted == \A i \in 1..Len(_model) : _model[i].fitted

(* the call ends by raising before or without any task *)
EndRaise(c) ==
    /\ pc' = "idle"
    /\ call' = c
    /\ last' = [outcome |-> "raised", out |-> NoneV, sts |-> <<>>]
    /\ tasks' = <<>>
    /\ completed' = <<>>
    /\ reordered' = FALSE

NewPool(n) == [id |-> ncalls + 1, size |-> n]
(* the executor is never shut down *)
PoolsKept(ps, id) == ps

(* leaving the with block: ThreadPoolExecutor.__exit__ shuts the pool down *)
PoolsAfterExit(ps, id) == {p \in ps : p.id # id}

(* DTIModel.fit up to the dispatch of the N tasks *)
FitCall(data) ==
    LET _nthreads == Len(_model)
        mask == ResolveMask(_mask, data)
        c == [op |-> "fit", data |-> data, grad |-> <<>>, step |-> NoneV]
    IN /\ kind = "DTI" /\ pc = "idle" /\ ncalls < MaxCalls
       /\ ncalls' = ncalls + 1
       /\ _mask' = mask
       /\ preModel' = _model
       /\ UNCHANGED <<kind, _model, _S0, S0full, maskArg, fitData, seen>>
       /\ IF ~IsNone(mask) /\ Len(Val(mask)) # Len(data)
          THEN EndRaise(c) /\ UNCHANGED pools
          ELSE LET data_chunks == ArraySplit(ApplyMask(data, mask), _nthreads)
               IN /\ pools' = pools \cup {NewPool(_nthreads)}
                  /\ tasks' = [i \in 1..Len(_model) |->
                                 [st |-> "running", model |-> _model[i],
                                  arg |-> data_chunks[i], res |-> <<>>]]
                  /\ completed' = <<>>
                  /\ call' = c
                  /\ pc' = "gather"
                  /\ last' = NoLast
                  /\ reordered' = FALSE

(* DTIModel.predict up to the dispatch of the N tasks *)
PredictCall(gradient, step) ==
    LET _nthreads == Len(_model)
        S0 == IF IsNone(_S0) THEN [i \in 1..Len(_model) |-> NoneV]
              ELSE LET ch == ArraySplit(Val(_S0), _nthreads)
                   IN [i \in 1..Len(_model) |-> Some(ch[i])]
        c == [op |-> "predict", data |-> <<>>, grad |-> gradient, step |-> step]
    IN /\ kind = "DTI" /\ pc = "idle" /\ ncalls < MaxCalls
       /\ ncalls' = ncalls + 1
       /\ preModel' = _model
       /\ UNCHANGED <<kind, _model, _mask, _S0, S0full, maskArg, fitData, seen>>
       /\ IF ~RasbOk(gradient)
          THEN EndRaise(c) /\ pools' = PoolsAfterExit(pools \cup {NewPool(_nthreads)}, ncalls + 1)
          ELSE /\ pools' = pools \cup {NewPool(_nthreads)}
               /\ tasks' = [i \in 1..Len(_model) |->
                              [st |-> "running", model |-> _model[i],
                               arg |-> S0[i], res |-> <<>>]]
               /\ completed' = <<>>
               /\ call' = c
               /\ pc' = "gather"
               /\ last' = NoLast
               /\ reordered' = FALSE

InCall == pc \in {"gather", "shutdown"}

(* _model_fit / _predict_sub in a worker thread: the library call returns *)
TaskReturn(i) ==
    /\ InCall
    /\ i \in 1..Len(tasks)
    /\ tasks[i].st = "running"
    /\ call.op = "predict" => LibPredictOk(tasks[i].model, tasks[i].arg)
    /\ LET r == IF call.op = "fit"
                THEN LibFit(tasks[i].arg, <<ncalls, i>>, FALSE)
                ELSE LibPredict(tasks[i].model, Rasb2dipy(call.grad), tasks[i].arg, call.step)
       IN tasks' = [tasks EXCEPT ![i].st = "done", ![i].res = <<r>>]
    /\ completed' = Append(completed, i)
    /\ UNCHANGED <<kind, _model, _mask, _S0, pc, call, pools, ncalls, last, S0full, maskArg,
                   fitData, preModel, seen, reordered>>

(* the library call raises *)
TaskRaise(i) ==
    /\ InCall
    /\ i \in 1..Len(tasks)
    /\ tasks[i].st = "running"
    /\ tasks' = [tasks EXCEPT ![i].st = "raised", ![i].res = <<Exception>>]
    /\ completed' = Append(completed, i)
    /\ UNCHANGED <<kind, _model, _mask, _S0, pc, call, pools, ncalls, last, S0full, maskArg,
                   fitData, preModel, seen, reordered>>

(* asyncio.gather: every awaitable has a result / some awaitable has an exception *)
GatherOkAll(ts) == \A i \in 1..Len(ts) : ts[i].st # "running"
GatherOk(ts) == \A i \in 1..Len(ts) : ts[i].st = "done"
GatherFailed(ts) == \E i \in 1..Len(ts) : ts[i].st = "raised"
AllFinished(ts) == \A i \in 1..Len(ts) : ts[i].st # "running"

Statuses(ts) == [i \in 1..Len(ts) |-> ts[i].st]

(* the tasks did not finish in the order of their indices *)
OutOfOrder(order) == \E k \in 1..Len(order) : order[k] # k

(* the results in the order in which the tasks finished *)
GatherByCompletion(ts, order) == [k \in 1..Len(ts) |-> ts[order[k]].res[1]]

(* the results in the order of the awaitables *)
GatherResults(ts, order) == [i \in 1..Len(ts) |-> ts[i].res[1]]

(* gather returns in fit: the results replace the sub-models, the pool is left *)
FitReturn ==
    /\ pc = "gather" /\ call.op = "fit"
    /\ GatherOk(tasks)
    /\ _model' = GatherResults(tasks, completed)
    /\ pools' = PoolsAfterExit(pools, ncalls)
    /\ pc' = "idle"
    /\ last' = [outcome |-> "returned", out |-> NoneV, sts |-> Statuses(tasks)]
    /\ fitData' = Some(call.data)
    /\ seen' = {}
    /\ tasks' = <<>>
    /\ completed' = <<>>
    /\ reordered' = OutOfOrder(completed)
    /\ UNCHANGED <<kind, _mask, _S0, call, ncalls, S0full, maskArg, preModel>>

(* as PredictReturn, with the gathered arrays also assigned to self._model *)
PredictReturnStores ==
    /\ pc = "gather" /\ call.op = "predict"
    /\ GatherOk(tasks)
    /\ pools' = PoolsAfterExit(pools, ncalls)
    /\ pc' = "idle"
    /\ _model' = [i \in 1..Len(tasks) |->
                    [id |-> <<ncalls, i>>, fitted |-> FALSE, spatial |-> FALSE,
                     params |-> tasks[i].res[1]]]
    /\ LET predicted == Squeeze(Concat(GatherResults(tasks, completed)), FALSE)
       IN IF ScatterOk(_mask, predicted)
          THEN LET retval == Scatter(_mask, predicted)
               IN /\ last' = [outcome |-> "returned", out |-> Some(retval),
                               sts |-> Statuses(tasks)]
                  /\ seen' = IF Fitted THEN seen \cup {<<call.grad, call.step, retval, ncalls>>}
                             ELSE seen
          ELSE /\ last' = [outcome |-> "raised", out |-> NoneV, sts |-> Statuses(tasks)]
               /\ seen' = seen
    /\ tasks' = <<>>
    /\ completed' = <<>>
    /\ reordered' = OutOfOrder(completed)
    /\ UNCHANGED <<kind, _mask, _S0, call, ncalls, S0full, maskArg, fitData, preModel>>

(* gather returns in predict: concatenate, squeeze, scatter *)
PredictReturn ==
    /\ pc = "gather" /\ call.op = "predict"
    /\ GatherOk(tasks)
    /\ pools' = PoolsAfterExit(pools, ncalls)
    /\ pc' = "idle"
    /\ LET predicted == Squeeze(Concat(GatherResults(tasks, completed)), FALSE)
       IN IF ScatterOk(_mask, predicted)
          THEN LET retval == Scatter(_mask, predicted)
               IN /\ last' = [outcome |-> "returned", out |-> Some(retval),
                               sts |-> Statuses(tasks)]
                  /\ seen' = IF Fitted THEN seen \cup {<<call.grad, call.step, retval, ncalls>>}
                             ELSE seen
          ELSE /\ last' = [outcome |-> "raised", out |-> NoneV, sts |-> Statuses(tasks)]
               /\ seen' = seen
    /\ tasks' = <<>>
    /\ completed' = <<>>
    /\ reordered' = OutOfOrder(completed)
    /\ UNCHANGED <<kind, _model, _mask, _S0, call, ncalls, S0full, maskArg,
                   fitData, preModel>>

(* gather raises the first exception; the loop is closed, the executor's  *)
(* exit waits for the tasks still running                                  *)
GatherRaise ==
    /\ pc = "gather"
    /\ GatherFailed(tasks)
    /\ pc' = "shutdown"
    /\ UNCHANGED <<kind, _model, _mask, _S0, call, tasks, completed, pools, ncalls, last,
                   S0full, maskArg, fitData, preModel, seen, reordered>>

(* executor.shutdown(wait=True) is over: the exception leaves the call *)
ShutdownDone ==
    /\ pc = "shutdown"
    /\ AllFinished(tasks)
    /\ pools' = PoolsAfterExit(pools, ncalls)
    /\ pc' = "idle"
    /\ last' = [outcome |-> "raised", out |-> NoneV, sts |-> Statuses(tasks)]
    /\ tasks' = <<>>
    /\ completed' = <<>>
    /\ reordered' = OutOfOrder(completed)
    /\ UNCHANGED <<kind, _model, _mask, _S0, call, ncalls, S0full, maskArg,
                   fitData, preModel, seen>>

(* DKIModel.fit: one synchronous library call on data[self._mask, ...] *)
DKIFit(data, raises) ==
    LET c == [op |-> "fit", data |-> data, grad |-> <<>>, step |-> NoneV]
    IN /\ kind = "DKI" /\ pc = "idle" /\ ncalls < MaxCalls
       /\ ncalls' = ncalls + 1
       /\ preModel' = _model
       /\ call' = c
       /\ pc' = "idle"
       /\ IF raises \/ (~IsNone(_mask) /\ Len(Val(_mask)) # Len(data))
          THEN /\ last' = [outcome |-> "raised", out |-> NoneV, sts |-> <<>>]
               /\ UNCHANGED <<_model, fitData, seen>>
          ELSE /\ _model' = <<LibFit(ApplyMask(data, _mask), <<ncalls + 1, 1>>, IsNone(_mask))>>
               /\ last' = [outcome |-> "returned", out |-> NoneV, sts |-> <<>>]
               /\ fitData' = Some(data)
               /\ seen' = {}
       /\ reordered' = FALSE
       /\ UNCHANGED <<kind, _mask, _S0, tasks, completed, pools, S0full, maskArg>>

(* DKIModel.predict *)
DKIPredict(gradient, raises) ==
    LET c == [op |-> "predict", data |-> <<>>, grad |-> gradient, step |-> NoneV]
        rows == LibPredict(_model[1], Rasb2dipy(gradient), _S0, NoneV)
        predicted == Squeeze(rows, _model[1].spatial)
        ok == /\ ~raises
              /\ RasbOk(gradient)
              /\ LibPredictOk(_model[1], _S0)
              /\ (predicted.ndim = 3 \/ ScatterOk(_mask, predicted))
        retval == IF predicted.ndim = 3 THEN [shape |-> "volume", vals |-> rows]
                  ELSE Scatter(_mask, predicted)
    IN /\ kind = "DKI" /\ pc = "idle" /\ ncalls < MaxCalls
       /\ ncalls' = ncalls + 1
       /\ preModel' = _model
       /\ call' = c
       /\ pc' = "idle"
       /\ IF ok
          THEN /\ last' = [outcome |-> "returned", out |-> Some(retval), sts |-> <<>>]
               /\ seen' = IF Fitted THEN seen \cup {<<gradient, NoneV, retval, ncalls + 1>>} ELSE seen
          ELSE /\ last' = [outcome |-> "raised", out |-> NoneV, sts |-> <<>>]
               /\ seen' = seen
       /\ reordered' = FALSE
       /\ UNCHANGED <<kind, _model, _mask, _S0, tasks, completed, pools, S0full, maskArg, fitData>>

Next ==
    \/ \E data \in DataInputs : FitCall(data)
    \/ \E a \in PredictInputs : PredictCall(a[1], a[2])
    \/ \E i \in 1..MaxThreads : TaskReturn(i)
    \/ \E i \in 1..MaxThreads : TaskRaise(i)
    \/ FitReturn
    \/ PredictReturn
    \/ GatherRaise
    \/ ShutdownDone
    \/ \E data \in DataInputs, raises \in BOOLEAN : DKIFit(data, raises)
    \/ \E gradient \in Gradients, raises \in BOOLEAN : DKIPredict(gradient, raises)

Spec == Init /\ [][Next]_vars


(***************************************************************************)
(* Properties                                                              *)
(***************************************************************************)
FitDone == pc = "idle" /\ call.op = "fit" /\ last.outcome = "returned"
PredictDone == pc = "idle" /\ call.op = "predict" /\ last.outcome = "returned"
AllTrue(n) == [i \in 1..n |-> TRUE]
Masked == MaskedIdx(Val(_mask), 1)
BaselineOf(v) == IF IsNone(S0full) THEN NoneV ELSE Some(Val(S0full)[v])
(* chunk and offset of the k-th masked voxel among M voxels split N ways *)
ChunkOf(k, M, N) == CHOOSE i \in 1..N : SumTo(SplitSizes(M, N), i - 1) < k /\ k <= SumTo(SplitSizes(M, N), i)
OffsetIn(k, M, N) == k - SumTo(SplitSizes(M, N), ChunkOf(k, M, N) - 1)

(* C1: after predict returns on a fitted DTI model the output is a volume *)
(* of the mask's shape, zero outside the mask, and the k-th masked voxel   *)
(* holds the prediction made from the parameters fitted to that voxel's    *)
(* own data, by the sub-model of the chunk that contains it, with that     *)
(* voxel's own baseline value.                                             *)
C1_MaskRoundTrip ==
    (kind = "DTI" /\ PredictDone /\ Fitted) =>
        LET out == Val(last.out)
            m == Val(_mask)
            d == Val(fitData)
            N == Len(_model)
        IN /\ out.shape = "volume"
           /\ Len(out.vals) = Len(m)
           /\ \A v \in 1..Len(m) : ~m[v] => out.vals[v] = Zero
           /\ \A k \in 1..Len(Masked) :
                LET v == Masked[k]
                    sub == _model[ChunkOf(k, Len(Masked), N)]
                    j == OffsetIn(k, Len(Masked), N)
                IN /\ sub.params[j] = FitVoxel(d[v])
                   /\ out.vals[v] =
                        PredVoxel(sub.params[j], Rasb2dipy(call.grad), BaselineOf(v), call.step)

C1_Witness ==
    /\ kind = "DTI" /\ PredictDone /\ Fitted /\ reordered
    /\ Len(_model) >= 2
    /\ ~IsNone(_S0)
    /\ Len(Masked) >= 2 /\ Len(Masked) < Len(Val(_mask))
    /\ Val(_mask)[1] = FALSE

(* C2: the output of a fitted DTI model with k workers is the output of    *)
(* the same pipeline run with a single chunk.                              *)
SingleChunkOutput ==
    LET rows == ArraySplit(ApplyMask(Val(fitData), _mask), 1)[1]
        sub == LibFit(rows, <<0, 0>>, FALSE)
        S0 == IF IsNone(_S0) THEN NoneV ELSE Some(ArraySplit(Val(_S0), 1)[1])
        predicted == LibPredict(sub, Rasb2dipy(call.grad), S0, call.step)
    IN Scatter(_mask, Squeeze(Concat(<<predicted>>), FALSE))

C2_ChunkingInvisible ==
    (kind = "DTI" /\ PredictDone /\ Fitted) => Val(last.out) = SingleChunkOutput

C2_Witness ==
    /\ kind = "DTI" /\ PredictDone /\ Fitted /\ reordered
    /\ Len(_model) >= 2
    /\ Len(Masked) > Len(_model)
    /\ ~IsNone(_S0)

(* C3: once a chunk of a DTI fit has raised, the sub-model array keeps the *)
(* value it had before the call, and the call ends by raising.             *)
ChunkRaised(sts) == \E i \in 1..Len(sts) : sts[i] = "raised"
C3_NoPartialCommit ==
    /\ (kind = "DTI" /\ InCall /\ call.op = "fit" /\ GatherFailed(tasks)) => _model = preModel
    /\ (kind = "DTI" /\ pc = "idle" /\ call.op = "fit" /\ ChunkRaised(last.sts)) =>
           (last.outcome = "raised" /\ _model = preModel)

C3_Witness ==
    /\ kind = "DTI" /\ pc = "idle" /\ call.op = "fit"
    /\ last.outcome = "raised"
    /\ last.sts = <<"done", "raised">>
    /\ ~Fitted

(* C4: no step of a predict call changes the sub-models, the mask or the   *)
(* masked baseline, and on a fitted model two predict calls with the same  *)
(* arguments return the same output.                                       *)
SameArgsSameOutput ==
    \A a \in seen, b \in seen : (a[1] = b[1] /\ a[2] = b[2]) => a[3] = b[3]
C4_PredictReadOnly ==
    /\ []SameArgsSameOutput
    /\ [][call'.op = "predict" => UNCHANGED <<_model, _mask, _S0>>]_vars

C4_Witness ==
    /\ PredictDone /\ Fitted /\ kind = "DTI"
    /\ \E a \in seen, b \in seen : a[1] = b[1] /\ a[2] = b[2] /\ a[4] # b[4]
    /\ Len(_model) >= 2 /\ Len(Masked) >= 2
    /\ reordered

(* C5: a predict call on a model that was never fit ends in an error.      *)
C5_PredictNeedsFit ==
    (pc = "idle" /\ call.op = "predict" /\ ~Fitted) => last.outcome = "raised"

(* C6 as stated: for DTI and DKI, after a successful fit of a model built  *)
(* without mask and without baseline the mask is all-true over the data.   *)
NoMaskNoS0 == IsNone(maskArg) /\ IsNone(S0full)
FittedVoxels == Concat([i \in 1..Len(_model) |-> _model[i].params])
C7_ResultsByIndex ==
    (kind = "DTI" /\ FitDone) =>
        LET data_chunks == ArraySplit(ApplyMask(Val(fitData), _mask), Len(preModel))
        IN /\ Len(_model) = Len(preModel)
           /\ \A i \in 1..Len(_model) : _model[i] = LibFit(data_chunks[i], <<ncalls, i>>, FALSE)

C7_Witness ==
    /\ kind = "DTI" /\ FitDone /\ reordered
    /\ Len(_model) >= 2
    /\ _model[1].params # _model[2].params

(* C8: no two running fit tasks hold the same sub-model instance.          *)
C8_NoSharedInstance ==
    (kind = "DTI" /\ InCall /\ call.op = "fit") =>
        \A i \in 1..Len(tasks), j \in 1..Len(tasks) :
            (i # j /\ tasks[i].st = "running" /\ tasks[j].st = "running")
                => tasks[i].model.id # tasks[j].model.id

C10_PoolScoped ==
    /\ pc = "idle" => pools = {}
    /\ InCall => pools = {[id |-> ncalls, size |-> Len(_model)]}

C10_Witness ==
    /\ kind = "DTI" /\ pc = "idle" /\ ncalls = 2
    /\ last.outcome = "raised" /\ ChunkRaised(last.sts)
    /\ call.op = "predict"
    /\ pools = {}

====
